---- MODULE Spec2Model ----
(***************************************************************************)
(* AdGen Studio dashboard (src/src/pages/Index.tsx and its URL-based       *)
(* variant src/unnamed/part_000): the Index component's state, its event   *)
(* handlers, and the external services they call (the backend table, the   *)
(* storage bucket and the two webhooks), with every network call split     *)
(* into the request, the service's processing and the handler's            *)
(* continuation after the await.                                           *)
(***************************************************************************)
EXTENDS Integers, Sequences, FiniteSets, TLC

\* ------------------------------------------------------------------ bounds
MaxId    == 2      \* row identifiers are 1..MaxId
MaxSteps == 3      \* user actions inside a view (key strokes, blurs, clicks)
MaxNavs  == 3      \* header navigation clicks and settings saves

\* ------------------------------------------------------------ value domains
NULL  == "<null>"            \* JavaScript null
UNDEF == "<undefined>"       \* JavaScript undefined
Ids   == 1..MaxId
Texts == {"", "a"}           \* what the user can type into a field
Fields == {"post_title", "caption"}
Views  == {"dashboard", "create", "settings"}

GoodUrl == "https://x.supabase.co"
BadUrl  == "not-a-url"       \* non-blank, but no URL createClient accepts
GenHook == "https://n8n/webhook/generate"
PostHook == "https://n8n/webhook/post-to-socials"

AppSettings(u, k, g, p, t) ==
  [supabaseUrl |-> u, supabaseKey |-> k, n8nGenerateWebhook |-> g,
   n8nPostWebhook |-> p, tableName |-> t]

DefaultSettings == AppSettings("", "", "", "", "social_media_videos")

\* the settings records a user saves in a run
ConfiguredSettings ==
  AppSettings(GoodUrl, "key", GenHook, PostHook, "social_media_videos")

\* settings that differ in what getSupabase makes of them
BackendSettingsInputs ==
  { ConfiguredSettings,
    AppSettings("", "key", GenHook, PostHook, "social_media_videos"),
    AppSettings(GoodUrl, "", "", PostHook, "social_media_videos"),
    AppSettings(BadUrl, "key", GenHook, "", "social_media_videos") }

SettingsInputs ==
  BackendSettingsInputs \cup
  { AppSettings(GoodUrl, "key", "", PostHook, "video_posts"),
    AppSettings(GoodUrl, "key", GenHook, "", "social_media_videos"),
    AppSettings(GoodUrl, "key", "", "", "social_media_videos") }

\* JSON.stringify of a settings object: the keys and values in field order
JsonStringify(s) ==
  <<"supabaseUrl", s.supabaseUrl, "supabaseKey", s.supabaseKey,
    "n8nGenerateWebhook", s.n8nGenerateWebhook,
    "n8nPostWebhook", s.n8nPostWebhook, "tableName", s.tableName>>

\* the value that follows `key` in a JSON text
JsonValue(text, key) ==
  text[(CHOOSE i \in 1..Len(text) : i % 2 = 1 /\ text[i] = key) + 1]

\* (variant) a parse that keeps the default table name
JsonParseDefaultTable(text) ==
  [key \in {text[i] : i \in {j \in 1..Len(text) : j % 2 = 1}} |->
     IF key = "tableName" THEN "social_media_videos" ELSE JsonValue(text, key)]

\* JSON.parse: the object with the keys of the text
JsonParse(text) ==
  [key \in {text[i] : i \in {j \in 1..Len(text) : j % 2 = 1}} |->
     JsonValue(text, key)]

\* ---------------------------------------------------------------- VideoPost
VideoUrlOf(id) == IF id = 2 THEN NULL ELSE "https://cdn/ad.mp4"

VideoPost(id, title, caption) ==
  [id |-> id, video_url |-> VideoUrlOf(id), post_title |-> title,
   caption |-> caption, hashtag |-> NULL, youtube_post_status |-> "pending",
   instagram_post_status |-> "pending", facebook_post_status |-> "pending"]

\* the row the external generation workflow writes for an id
GeneratedRow(id) == IF id = 2 THEN VideoPost(id, NULL, NULL)
                              ELSE VideoPost(id, "a", "")

\* ------------------------------------------------------------ notifications
Toast(type, message) == [type |-> type, message |-> message]
NoToast == Toast("none", <<>>)
\* confirm(...) was shown and answered
Confirm(answer) ==
  [type |-> "confirm", answer |-> answer,
   message |-> <<"Are you sure you want to delete this post? This action cannot be undone.">>]

VARIABLES
  mounted,        \* the Index component has run its mount effects
  activeView,     \* Index state: activeView
  videos,         \* Index state: videos (the in-memory feed)
  loading,        \* Index state: loading
  settings,       \* Index state: settings
  editingFields,  \* DashboardView state: editingFields
  appSettingsSlot,\* localStorage 'appSettings': {} or {the JSON text}
  db,             \* the backend table: present ids -> row
  inflight,       \* network calls issued and not yet continued
  toast,          \* the notification the last step showed
  steps,          \* user actions taken inside the views
  navs,           \* navigation clicks and settings saves taken
  calls,          \* network calls issued
  variant,        \* which build runs: "upload" (Index.tsx) or "url" (part_000)
  draft,          \* CreateVideoView state (the CreateAdDraft)
  formSlot,       \* localStorage 'createAdFormData': {} or {record}
  bucket          \* storage bucket 'ad-files': "missing" or the set of keys

\* the runs explored: up to MaxSteps interactions inside the first view, or
\* one fewer together with up to MaxNavs navigation clicks and settings saves
StepAllowed == steps + (IF navs > 0 THEN 1 ELSE 0) < MaxSteps
NavAllowed  == navs < MaxNavs /\ steps < MaxSteps

indexVars  == <<mounted, activeView, videos, loading, settings>>
createVars == <<draft, formSlot, bucket>>
vars == <<mounted, activeView, videos, loading, settings, editingFields,
          appSettingsSlot, db, inflight, toast, steps, navs, calls,
          variant, draft, formSlot, bucket>>

\* ------------------------------------------------------------ pure helpers
\* getSupabase: null when the URL or the key is blank, else createClient,
\* whose constructor parses the URL and throws on a malformed one
GetSupabase(s) ==
  IF s.supabaseUrl = "" \/ s.supabaseKey = "" THEN "null"
  ELSE IF s.supabaseUrl = BadUrl THEN "throws"
  ELSE "client"

\* (variant) the publish action without the fallback to the generate webhook
PostWebhookUrlNoFallback(s) == s.n8nPostWebhook

\* handlePostToSocials: settings.n8nPostWebhook || settings.n8nGenerateWebhook
PostWebhookUrl(s) ==
  IF s.n8nPostWebhook # "" THEN s.n8nPostWebhook ELSE s.n8nGenerateWebhook

\* (variant) a built-in default endpoint when both webhooks are blank
GenerateWebhookUrlWithDefault(s) ==
  IF s.n8nGenerateWebhook # "" THEN s.n8nGenerateWebhook
  ELSE IF s.n8nPostWebhook # "" THEN s.n8nPostWebhook
  ELSE "http://localhost:5678/webhook/generate"

\* handleSubmit: settings.n8nGenerateWebhook || settings.n8nPostWebhook
GenerateWebhookUrl(s) ==
  IF s.n8nGenerateWebhook # "" THEN s.n8nGenerateWebhook ELSE s.n8nPostWebhook

\* (variant) a row that is not in the feed is put into it
PatchVideosInsertMissing(vs, videoId, field, value) ==
  IF \E i \in 1..Len(vs) : vs[i].id = videoId
  THEN [i \in 1..Len(vs) |->
          IF vs[i].id = videoId THEN [vs[i] EXCEPT ![field] = value] ELSE vs[i]]
  ELSE vs \o <<[id |-> videoId, video_url |-> NULL, post_title |-> value,
                caption |-> value, hashtag |-> NULL,
                youtube_post_status |-> "pending",
                instagram_post_status |-> "pending",
                facebook_post_status |-> "pending"]>>

\* (variant) the spread applied to every row, the id included
PatchVideosAllRows(vs, videoId, field, value) ==
  [i \in 1..Len(vs) |-> [vs[i] EXCEPT !.id = videoId, ![field] = value]]

\* (variant) the edited row is put first and the others follow
PatchVideosToFront(vs, videoId, field, value) ==
  LET hit == SelectSeq(vs, LAMBDA v : v.id = videoId)
  IN [i \in 1..Len(hit) |-> [hit[i] EXCEPT ![field] = value]]
       \o SelectSeq(vs, LAMBDA v : v.id # videoId)

\* prev.map(v => v.id === videoId ? { ...v, [field]: value } : v)
PatchVideos(vs, videoId, field, value) ==
  [i \in 1..Len(vs) |->
     IF vs[i].id = videoId THEN [vs[i] EXCEPT ![field] = value] ELSE vs[i]]

\* (variant) the filter's test inverted: v.id === videoId
FilterVideosInverted(vs, videoId) == SelectSeq(vs, LAMBDA v : v.id = videoId)

\* prev.filter(v => v.id !== videoId)
FilterVideos(vs, videoId) == SelectSeq(vs, LAMBDA v : v.id # videoId)

\* videos.find(v => v.id === videoId): {} when there is none
FindVideo(vs, videoId) ==
  LET hits == {i \in 1..Len(vs) : vs[i].id = videoId}
  IN IF hits = {} THEN {}
     ELSE {vs[CHOOSE i \in hits : \A j \in hits : i <= j]}

\* data || []
DataOrEmpty(data) == IF data = {} THEN <<>> ELSE CHOOSE d \in data : TRUE

\* .select('*').order('id', { ascending: false }) on the table
RECURSIVE SelectDescending(_, _)
SelectDescending(table, ids) ==
  IF ids = {} THEN <<>>
  ELSE LET top == CHOOSE i \in ids : \A j \in ids : j <= i
       IN <<table[top]>> \o SelectDescending(table, ids \ {top})

\* (variant) the error text without the table name
DatabaseErrorMessageNoTable(message, tableName) ==
  <<"Database error: ">> \o message \o <<". Check table name and RLS policies.">>

\* `Database error: ${error.message}. Check table name "${tableName}" and RLS policies.`
DatabaseErrorMessage(message, tableName) ==
  <<"Database error: ">> \o message \o <<". Check table name \"", tableName,
    "\" and RLS policies.">>

NoEdits == [id \in Ids |-> [post_title |-> UNDEF, caption |-> UNDEF]]


\* ------------------------------------------------------ CreateVideoView state
InitialDraft ==
  [activeTab |-> "reels", prompt |-> "", file |-> NULL, filePreview |-> NULL,
   productName |-> "", productDescription |-> "", aspectRatio |-> "Portrait",
   imageUrl |-> "", productImageUrl |-> "",
   inputFile |-> NULL,   \* the selection held by the <input type="file">
   reading |-> {}]       \* files a FileReader of this view is still reading

\* the persist effect's formData object, as JSON.stringify writes it
FormData(v, d) ==
  IF v = "upload"
  THEN [prompt |-> d.prompt, productName |-> d.productName,
        productDescription |-> d.productDescription,
        aspectRatio |-> d.aspectRatio, filePreview |-> d.filePreview,
        imageUrl |-> "", productImageUrl |-> ""]
  ELSE [prompt |-> d.prompt, productName |-> d.productName,
        productDescription |-> d.productDescription,
        aspectRatio |-> d.aspectRatio, filePreview |-> NULL,
        imageUrl |-> d.imageUrl, productImageUrl |-> d.productImageUrl]

\* a fresh CreateVideoView after its load effect: useState defaults, then the
\* fields of the saved record (file and activeTab are not persisted)
LoadDraft(v, slot) ==
  IF slot = {} THEN InitialDraft
  ELSE LET data == CHOOSE r \in slot : TRUE
       IN [InitialDraft EXCEPT
             !.prompt = data.prompt,
             !.productName = data.productName,
             !.productDescription = data.productDescription,
             !.aspectRatio = data.aspectRatio,
             !.filePreview = IF v = "upload" THEN data.filePreview ELSE NULL,
             !.imageUrl = IF v = "url" THEN data.imageUrl ELSE "",
             !.productImageUrl = IF v = "url" THEN data.productImageUrl ELSE ""]

\* DashboardView, CreateVideoView and SettingsView are functions declared in
\* the body of Index, so every render of Index makes new component types:
\* React unmounts the view that is shown and mounts a fresh one, with fresh
\* state.  `rendered` tells whether the step changed Index state; `slot` is
\* the draft slot as the step's own localStorage writes left it.
Render(rendered, slot) ==
  /\ editingFields' = IF rendered \/ activeView' # "dashboard"
                        THEN NoEdits ELSE editingFields
  /\ IF activeView' # "create"
       THEN draft' = InitialDraft /\ formSlot' = slot
       ELSE IF rendered
         THEN /\ draft' = LoadDraft(variant, slot)
              /\ formSlot' = {FormData(variant, LoadDraft(variant, slot))}
         ELSE draft' = draft /\ formSlot' = slot

\* a network call leaves the browser / no call is made
IssueFrom(pending, op) ==
  /\ inflight' = pending \cup {op @@ [n |-> calls, phase |-> "sent"]}
  /\ calls' = calls + 1

Issue(op) == IssueFrom(inflight, op)

NoCall == UNCHANGED <<inflight, calls>>

\* ------------------------------------------------------------- fetchVideos
\* the part of fetchVideos before its await, run with the settings `s` of
\* the render that made the closure; `client` is what getSupabase gave
FetchVideos(s, client) ==
  CASE client = "null" ->
         /\ toast' = Toast("error", <<"Please configure settings first">>)
         /\ loading' = loading
         /\ NoCall
    [] client = "throws" ->
         /\ toast' = NoToast
         /\ loading' = loading
         /\ NoCall
    [] client = "client" ->
         /\ loading' = TRUE
         /\ Issue([kind |-> "list", table |-> s.tableName])
         /\ toast' = NoToast

\* the effect on [supabaseUrl, supabaseKey, activeView]
AutoFetch(s, view, changed, client) ==
  IF changed /\ s.supabaseUrl # "" /\ s.supabaseKey # "" /\ view = "dashboard"
  THEN FetchVideos(s, client)
  ELSE toast' = NoToast /\ loading' = loading /\ NoCall

\* the mount effects of Index: load 'appSettings', then the fetch effect
Mount ==
  /\ ~mounted
  /\ mounted' = TRUE
  /\ settings' = IF appSettingsSlot = {} THEN settings
                 ELSE JsonParse(CHOOSE savedSettings \in appSettingsSlot : TRUE)
  /\ LET client == GetSupabase(settings') IN
       AutoFetch(settings', activeView, settings' # settings, client)
  /\ UNCHANGED <<activeView, videos, appSettingsSlot, db, steps, navs, variant, bucket>>
  /\ Render(TRUE, formSlot)

\* the Refresh button
Refresh ==
  /\ mounted /\ activeView = "dashboard" /\ StepAllowed
  /\ steps' = steps + 1 /\ navs' = navs
  /\ LET client == GetSupabase(settings) IN FetchVideos(settings, client)
  /\ UNCHANGED <<mounted, activeView, videos, settings, appSettingsSlot, db,
                 variant, bucket>>
  /\ Render(loading' # loading, formSlot)

\* (variant) an empty result reported as an error
LoadedToastEmptyIsError(data) ==
  IF data # {} /\ Len(DataOrEmpty(data)) > 0
  THEN Toast("success", <<"Loaded ", ToString(Len(DataOrEmpty(data))), " video(s)">>)
  ELSE Toast("error", <<"No videos found">>)

\* if (data && data.length > 0) showNotification('success', ...)
LoadedToast(data) ==
  IF data # {} /\ Len(DataOrEmpty(data)) > 0
  THEN Toast("success", <<"Loaded ", ToString(Len(DataOrEmpty(data))), " video(s)">>)
  ELSE NoToast

\* (variant) a failed list empties the feed
FetchVideosDoneClears(o) ==
  /\ o \in inflight /\ o.kind = "list" /\ o.phase = "replied"
  /\ inflight' = inflight \ {o}
  /\ loading' = FALSE
  /\ CASE o.outcome = "error" ->
            /\ toast' = Toast("error", DatabaseErrorMessage(o.message, o.table))
            /\ videos' = <<>>
       [] o.outcome = "throw" ->
            /\ toast' = Toast("error", o.message)
            /\ videos' = <<>>
       [] o.outcome = "ok" ->
            /\ videos' = DataOrEmpty(o.data)
            /\ toast' = LoadedToast(o.data)
  /\ UNCHANGED <<mounted, activeView, settings, appSettingsSlot, db, steps, navs, calls,
                 variant, bucket>>
  /\ Render(TRUE, formSlot)

\* the continuation of fetchVideos after the await
FetchVideosDone(o) ==
  /\ o \in inflight /\ o.kind = "list" /\ o.phase = "replied"
  /\ inflight' = inflight \ {o}
  /\ loading' = FALSE
  /\ CASE o.outcome = "error" ->
            /\ toast' = Toast("error", DatabaseErrorMessage(o.message, o.table))
            /\ videos' = videos
       [] o.outcome = "throw" ->
            /\ toast' = Toast("error", o.message)
            /\ videos' = videos
       [] o.outcome = "ok" ->
            /\ videos' = DataOrEmpty(o.data)
            /\ toast' = LoadedToast(o.data)
  /\ UNCHANGED <<mounted, activeView, settings, appSettingsSlot, db, steps, navs, calls,
                 variant, bucket>>
  /\ Render(o.outcome = "ok" \/ loading' # loading, formSlot)

\* --------------------------------------------------------- updateVideoField
\* (variant) the update sends the other editable field as well
UpdateVideoFieldBothFields(s, client, videoId, field, value) ==
  IF client = "client"
  THEN Issue([kind |-> "update", table |-> s.tableName, id |-> videoId,
              changes |-> {<<f, value>> : f \in Fields}])
  ELSE NoCall

\* .from(tableName).update({ [field]: value }).eq('id', videoId)
UpdateVideoField(s, client, videoId, field, value) ==
  IF client = "client"
  THEN Issue([kind |-> "update", table |-> s.tableName, id |-> videoId,
              changes |-> {<<field, value>>}])
  ELSE NoCall

\* value={editingFields[video.id]?.[field] ?? video[field] ?? ''}
DisplayedValue(edits, video, field) ==
  IF edits[video.id][field] # UNDEF THEN edits[video.id][field]
  ELSE IF video[field] # NULL THEN video[field]
  ELSE ""

\* handleFieldChange: a key stroke in the title or description control (the
\* change event fires when the control's value differs from the one shown)
HandleFieldChange(videoId, field, value) ==
  /\ mounted /\ activeView = "dashboard" /\ StepAllowed
  /\ \E video \in FindVideo(videos, videoId) :
       value # DisplayedValue(editingFields, video, field)
  /\ steps' = steps + 1 /\ navs' = navs
  /\ editingFields' = [editingFields EXCEPT ![videoId][field] = value]
  /\ toast' = NoToast
  /\ UNCHANGED <<mounted, activeView, videos, loading, settings,
                 appSettingsSlot, db, inflight, calls, variant, draft, formSlot, bucket>>

\* handleFieldBlur: does the blur call updateVideoField?
BlurUpdates(edits, vs, videoId, field) ==
  /\ edits[videoId][field] # UNDEF
  /\ FindVideo(vs, videoId) # {}
  /\ \E currentVideo \in FindVideo(vs, videoId) :
       edits[videoId][field] # currentVideo[field]

HandleFieldBlur(videoId, field) ==
  /\ mounted /\ activeView = "dashboard" /\ StepAllowed
  /\ FindVideo(videos, videoId) # {}
  /\ steps' = steps + 1 /\ navs' = navs
  /\ IF BlurUpdates(editingFields, videos, videoId, field)
       THEN LET client == GetSupabase(settings) IN
              UpdateVideoField(settings, client, videoId, field,
                               editingFields[videoId][field])
       ELSE NoCall
  /\ toast' = NoToast
  /\ UNCHANGED <<mounted, activeView, videos, loading, settings, editingFields,
                 appSettingsSlot, db, variant, draft, formSlot, bucket>>

\* (variant) the feed patched before the response is looked at
VideosAfterUpdateOptimistic(vs, o) ==
  LET c == CHOOSE c \in o.changes : TRUE
  IN PatchVideos(vs, o.id, c[1], c[2])

\* if (error) throw error; setVideos(prev => prev.map(...))
VideosAfterUpdate(vs, o) ==
  IF o.outcome = "ok"
  THEN LET c == CHOOSE c \in o.changes : TRUE
       IN PatchVideos(vs, o.id, c[1], c[2])
  ELSE vs

\* the continuation of updateVideoField after the await
UpdateVideoFieldDone(o) ==
  /\ o \in inflight /\ o.kind = "update" /\ o.phase = "replied"
  /\ inflight' = inflight \ {o}
  /\ videos' = VideosAfterUpdate(videos, o)
  /\ toast' = IF o.outcome = "ok"
                THEN Toast("success", <<"Updated successfully">>)
                ELSE Toast("error", o.message)
  /\ UNCHANGED <<mounted, activeView, loading, settings, appSettingsSlot, db,
                 steps, navs, calls, variant, bucket>>
  /\ Render(o.outcome = "ok", formSlot)

\* -------------------------------------------------------------- deleteVideo
\* the Delete Post button; `confirmed` is the user's answer to confirm()
DeleteVideo(videoId, confirmed) ==
  /\ mounted /\ activeView = "dashboard" /\ StepAllowed
  /\ FindVideo(videos, videoId) # {}
  /\ steps' = steps + 1 /\ navs' = navs
  /\ LET client == GetSupabase(settings) IN
       CASE client = "null" ->
              /\ toast' = Toast("error", <<"Supabase not configured">>)
              /\ loading' = loading
              /\ NoCall
         [] client = "throws" ->
              /\ toast' = NoToast
              /\ loading' = loading
              /\ NoCall
         [] client = "client" /\ ~confirmed ->
              /\ toast' = Confirm(FALSE)
              /\ loading' = loading
              /\ NoCall
         [] client = "client" /\ confirmed ->
              /\ loading' = TRUE
              /\ Issue([kind |-> "delete", table |-> settings.tableName,
                        id |-> videoId])
              /\ toast' = Confirm(TRUE)
  /\ UNCHANGED <<mounted, activeView, videos, settings, appSettingsSlot, db,
                 variant, bucket>>
  /\ Render(loading' # loading, formSlot)

\* the continuation of deleteVideo after the await
DeleteVideoDone(o) ==
  /\ o \in inflight /\ o.kind = "delete" /\ o.phase = "replied"
  /\ inflight' = inflight \ {o}
  /\ loading' = FALSE
  /\ IF o.outcome = "ok"
       THEN /\ videos' = FilterVideos(videos, o.id)
            /\ toast' = Toast("success", <<"Post deleted successfully">>)
       ELSE /\ videos' = videos
            /\ toast' = Toast("error", o.message)
  /\ UNCHANGED <<mounted, activeView, settings, appSettingsSlot, db, steps, navs, calls,
                 variant, bucket>>
  /\ Render(o.outcome = "ok" \/ loading' # loading, formSlot)


\* ------------------------------------------------------ handlePostToSocials
\* the Download Media button, rendered for rows that have a video_url
HandleDownload(videoId) ==
  /\ mounted /\ activeView = "dashboard" /\ StepAllowed
  /\ \E video \in FindVideo(videos, videoId) : video.video_url # NULL
  /\ steps' = steps + 1 /\ navs' = navs
  /\ toast' = Toast("success", <<"Download started!">>)
  /\ UNCHANGED <<mounted, activeView, videos, loading, settings, editingFields,
                 appSettingsSlot, db, inflight, calls, variant, draft, formSlot, bucket>>

\* (variant) the body built from what the card shows, edit buffers included
HandlePostToSocialsEdited(videoId) ==
  /\ mounted /\ activeView = "dashboard" /\ StepAllowed
  /\ \E video \in FindVideo(videos, videoId) :
       /\ video.video_url # NULL
       /\ IF PostWebhookUrl(settings) = ""
            THEN /\ toast' = Toast("error",
                       <<"Please configure at least one n8n webhook in Settings">>)
                 /\ NoCall
            ELSE /\ toast' = NoToast
                 /\ Issue([kind |-> "publish", url |-> PostWebhookUrl(settings),
                           body |-> [video EXCEPT
                             !.post_title = DisplayedValue(editingFields, video, "post_title"),
                             !.caption = DisplayedValue(editingFields, video, "caption")]])
  /\ steps' = steps + 1 /\ navs' = navs
  /\ UNCHANGED <<mounted, activeView, videos, loading, settings, editingFields,
                 appSettingsSlot, db, variant, draft, formSlot, bucket>>

\* the Post to Social Media button, rendered for rows that have a video_url
HandlePostToSocials(videoId) ==
  /\ mounted /\ activeView = "dashboard" /\ StepAllowed
  /\ \E video \in FindVideo(videos, videoId) :
       /\ video.video_url # NULL
       /\ IF PostWebhookUrl(settings) = ""
            THEN /\ toast' = Toast("error",
                       <<"Please configure at least one n8n webhook in Settings">>)
                 /\ NoCall
            ELSE /\ toast' = NoToast
                 /\ Issue([kind |-> "publish", url |-> PostWebhookUrl(settings),
                           body |-> video])
  /\ steps' = steps + 1 /\ navs' = navs
  /\ UNCHANGED <<mounted, activeView, videos, loading, settings, editingFields,
                 appSettingsSlot, db, variant, draft, formSlot, bucket>>

\* the continuation of handlePostToSocials after the await
PostToSocialsDone(o) ==
  /\ o \in inflight /\ o.kind = "publish" /\ o.phase = "replied"
  /\ inflight' = inflight \ {o}
  /\ toast' = CASE o.outcome = "throw" -> Toast("error", o.message)
                [] o.outcome = "response" /\ ~o.ok ->
                     Toast("error", <<"Failed to post to socials">>)
                [] o.outcome = "response" /\ o.ok ->
                     Toast("success", <<"Posted to social media successfully!">>)
  /\ UNCHANGED <<mounted, activeView, videos, loading, settings, editingFields,
                 appSettingsSlot, db, steps, navs, calls, variant, draft, formSlot, bucket>>

\* ------------------------------------------------- navigation and settings
\* the header buttons: setActiveView(view), then the fetch effect
SetActiveView(view) ==
  /\ mounted /\ NavAllowed /\ view # activeView
  /\ navs' = navs + 1 /\ steps' = steps
  /\ activeView' = view
  /\ LET client == GetSupabase(settings) IN
       AutoFetch(settings, view, TRUE, client)
  /\ UNCHANGED <<mounted, videos, settings, appSettingsSlot, db, variant, bucket>>
  /\ Render(TRUE, formSlot)

\* SettingsView.handleSave with the form holding tempSettings
HandleSave(tempSettings) ==
  /\ mounted /\ activeView = "settings" /\ NavAllowed
  /\ navs' = navs + 1 /\ steps' = steps
  /\ settings' = tempSettings
  /\ appSettingsSlot' = {JsonStringify(tempSettings)}
  /\ toast' = Toast("success", <<"Settings saved successfully!">>)
  /\ UNCHANGED <<mounted, activeView, videos, loading, db, inflight, calls,
                 variant, bucket>>
  /\ Render(settings' # settings, formSlot)

\* the page is loaded again: the component state starts from its defaults,
\* pending responses are never delivered, local storage is kept
Reload ==
  /\ mounted /\ StepAllowed
  /\ steps' = steps + 1 /\ navs' = navs
  /\ mounted' = FALSE
  /\ activeView' = "dashboard"
  /\ videos' = <<>>
  /\ loading' = FALSE
  /\ settings' = DefaultSettings
  /\ editingFields' = NoEdits
  /\ draft' = InitialDraft
  /\ inflight' = {}
  /\ toast' = NoToast
  /\ UNCHANGED <<appSettingsSlot, db, calls, variant, formSlot, bucket>>

\* --------------------------------------------------- the backend data API
Reply(o, outcome, message) ==
  [o EXCEPT !.phase = "replied"] @@
  [outcome |-> outcome, message |-> message]

\* an error response of the service, or the request throwing
BackendFailures(kind) == {<<"error", <<kind, ": permission denied">> >>,
                          <<"throw", <<kind, ": Failed to fetch">> >>}

\* the table answers a select: the rows in descending id order, or no body
BackendList(o) ==
  /\ o \in inflight /\ o.kind = "list" /\ o.phase = "sent"
  /\ \/ \E data \in {{SelectDescending(db, DOMAIN db)}, {}} :
          inflight' = (inflight \ {o}) \cup
                        {Reply(o, "ok", <<>>) @@ [data |-> data]}
     \/ \E f \in BackendFailures(o.kind) :
          inflight' = (inflight \ {o}) \cup
                        {Reply(o, f[1], f[2]) @@ [data |-> {}]}
  /\ toast' = NoToast
  /\ UNCHANGED <<mounted, activeView, videos, loading, settings, editingFields,
                 appSettingsSlot, db, steps, navs, calls, variant, draft, formSlot, bucket>>

\* the table applies an update .eq('id', id), or refuses it
BackendUpdate(o) ==
  /\ o \in inflight /\ o.kind = "update" /\ o.phase = "sent"
  /\ \/ /\ inflight' = (inflight \ {o}) \cup {Reply(o, "ok", <<>>)}
        /\ db' = IF o.id \in DOMAIN db
                   THEN LET c == CHOOSE c \in o.changes : TRUE
                        IN [db EXCEPT ![o.id][c[1]] = c[2]]
                   ELSE db
     \/ /\ \E f \in BackendFailures(o.kind) :
             inflight' = (inflight \ {o}) \cup {Reply(o, f[1], f[2])}
        /\ db' = db
  /\ toast' = NoToast
  /\ UNCHANGED <<mounted, activeView, videos, loading, settings, editingFields,
                 appSettingsSlot, steps, navs, calls, variant, draft, formSlot, bucket>>

\* the table applies a delete .eq('id', id), or refuses it
BackendDelete(o) ==
  /\ o \in inflight /\ o.kind = "delete" /\ o.phase = "sent"
  /\ \/ /\ inflight' = (inflight \ {o}) \cup {Reply(o, "ok", <<>>)}
        /\ db' = [i \in DOMAIN db \ {o.id} |-> db[i]]
     \/ /\ \E f \in BackendFailures(o.kind) :
             inflight' = (inflight \ {o}) \cup {Reply(o, f[1], f[2])}
        /\ db' = db
  /\ toast' = NoToast
  /\ UNCHANGED <<mounted, activeView, videos, loading, settings, editingFields,
                 appSettingsSlot, steps, navs, calls, variant, draft, formSlot, bucket>>

\* a webhook answers a POST: a status and a body, or the fetch throws
WebhookReply(o) ==
  /\ o \in inflight /\ o.kind \in {"publish", "submit"} /\ o.phase = "sent"
  /\ \/ \E r \in {<<TRUE, "200", "{\"ok\":true}", TRUE>>,
                  <<TRUE, "200", "Workflow was started", FALSE>>,
                  <<FALSE, "500", "Internal Server Error", FALSE>>} :
          inflight' = (inflight \ {o}) \cup
            {Reply(o, "response", <<>>) @@
               [ok |-> r[1], status |-> r[2], text |-> r[3], json |-> r[4]]}
     \/ inflight' = (inflight \ {o}) \cup
            {Reply(o, "throw", <<"Failed to fetch">>) @@
               [ok |-> FALSE, status |-> "", text |-> "", json |-> FALSE]}
  /\ toast' = NoToast
  /\ UNCHANGED <<mounted, activeView, videos, loading, settings, editingFields,
                 appSettingsSlot, db, steps, navs, calls, variant, draft, formSlot, bucket>>


\* ---------------------------------------------------------- CreateVideoView
Tabs == {"reels", "product", "ugc"}
FileInputs == {"photo.png", "clip"}          \* names of files a user picks
FileType(name) == IF name = "photo.png" THEN "image/png" ELSE "video/mp4"
PreviewOf(name) == IF name = "photo.png" THEN "data:image/png;base64,AAAA"
                                         ELSE "data:video/mp4;base64,BBBB"
Timestamps == {1000, 1001}                   \* values Date.now() returns

\* what the user can type into each text control of the form
DraftInputs ==
  [prompt |-> {"", "make it pop"}, productName |-> {"", "Lamp"},
   productDescription |-> {"", "A lamp"},
   aspectRatio |-> {"Portrait", "Landscape"},
   imageUrl |-> {"", "https://site/i.jpg"},
   productImageUrl |-> {"", "https://site/p.jpg"}]

\* String.prototype.trim on the strings of the model
Trim(str) == CASE str = " " -> ""
               [] str = " https://site/i.jpg " -> "https://site/i.jpg"
               [] OTHER -> str

\* name.split('.').pop()
FileExt(name) == CASE name = "photo.png" -> "png"
                   [] OTHER -> name

\* `ads/${activeTab}_${timestamp}.${fileExt}`
FilePath(tab, timestamp, name) ==
  <<"ads/", tab, "_", ToString(timestamp), ".", FileExt(name)>>

\* getPublicUrl(filePath).publicUrl
PublicUrl(path) == <<"https://x.supabase.co/storage/v1/object/public/ad-files/">> \o path

\* the `required` controls of the form that is shown: the browser does not
\* fire the submit event while one of them is empty
FormValid(v, d) ==
  /\ d.prompt # ""
  /\ d.activeTab # "reels" => d.productName # "" /\ d.productDescription # ""
  /\ v = "upload" => d.inputFile # NULL
  /\ v = "url" /\ d.activeTab = "reels" => d.imageUrl # ""

\* the persist effect: runs when one of its dependencies changed
Persist(v, old, new, slot) ==
  IF FormData(v, new) # FormData(v, old) THEN {FormData(v, new)} ELSE slot

\* the tab buttons; the reels tab and the other tabs render different file inputs
SetActiveTab(tab) ==
  /\ mounted /\ activeView = "create" /\ StepAllowed /\ tab # draft.activeTab
  /\ steps' = steps + 1 /\ navs' = navs
  /\ draft' = [draft EXCEPT !.activeTab = tab,
                 !.inputFile = IF (tab = "reels") # (draft.activeTab = "reels")
                                 THEN NULL ELSE @]
  /\ toast' = NoToast
  /\ UNCHANGED <<mounted, activeView, videos, loading, settings, editingFields,
                 appSettingsSlot, db, inflight, calls, variant, formSlot, bucket>>

\* onChange of a text control or an aspect-ratio button, then the persist effect
SetDraftField(field, value) ==
  /\ mounted /\ activeView = "create" /\ StepAllowed
  /\ value # draft[field]
  /\ variant = "upload" => field \notin {"imageUrl", "productImageUrl"}
  /\ field = "imageUrl" => draft.activeTab = "reels"
  /\ field \in {"productName", "productDescription", "productImageUrl"}
       => draft.activeTab # "reels"
  /\ steps' = steps + 1 /\ navs' = navs
  /\ draft' = [draft EXCEPT ![field] = value]
  /\ formSlot' = Persist(variant, draft, draft', formSlot)
  /\ toast' = NoToast
  /\ UNCHANGED <<mounted, activeView, videos, loading, settings, editingFields,
                 appSettingsSlot, db, inflight, calls, variant, bucket>>

\* handleFileChange from the file input (selectedFile) or from the Clear file
\* button (null; shown while file is set, and it leaves the input's selection)
HandleFileChange(selectedFile, fromInput) ==
  /\ mounted /\ activeView = "create" /\ StepAllowed
  /\ fromInput => selectedFile # draft.inputFile
  /\ ~fromInput => /\ selectedFile = NULL /\ draft.file # NULL
                   /\ variant = "url" => draft.activeTab = "reels"
  /\ steps' = steps + 1 /\ navs' = navs
  /\ draft' = [draft EXCEPT
                 !.file = selectedFile,
                 !.inputFile = IF fromInput THEN selectedFile ELSE @,
                 !.reading = IF selectedFile # NULL THEN @ \cup {selectedFile} ELSE @,
                 !.filePreview = IF selectedFile # NULL THEN @ ELSE NULL]
  /\ formSlot' = Persist(variant, draft, draft', formSlot)
  /\ toast' = NoToast
  /\ UNCHANGED <<mounted, activeView, videos, loading, settings, editingFields,
                 appSettingsSlot, db, inflight, calls, variant, bucket>>

\* reader.onloadend: setFilePreview(reader.result)
FileReaderDone(name) ==
  /\ name \in draft.reading
  /\ draft' = [draft EXCEPT !.reading = @ \ {name}, !.filePreview = PreviewOf(name)]
  /\ formSlot' = Persist(variant, draft, draft', formSlot)
  /\ toast' = NoToast
  /\ UNCHANGED <<mounted, activeView, videos, loading, settings, editingFields,
                 appSettingsSlot, db, inflight, steps, navs, calls, variant, bucket>>


\* ------------------------------------------------------------ handleSubmit
NullUrl == <<>>                               \* fileUrl = null
ClientError == <<"Invalid URL">>

\* filePreview?.startsWith('data:image')
StartsWithDataImage(preview) == preview = "data:image/png;base64,AAAA"

\* uploadError.message.includes('Bucket not found')
IncludesBucketNotFound(message) == message = <<"Bucket not found">>

\* the values handleSubmit's closure holds: the draft and settings of the
\* render whose form was submitted
Submission(d, s) ==
  [activeTab |-> d.activeTab, prompt |-> d.prompt, file |-> d.file,
   filePreview |-> d.filePreview, productName |-> d.productName,
   productDescription |-> d.productDescription, aspectRatio |-> d.aspectRatio,
   imageUrl |-> d.imageUrl, productImageUrl |-> d.productImageUrl,
   webhookUrl |-> GenerateWebhookUrl(s), settings |-> s]

\* (variant) the preview sent along whenever there is one
UploadPayloadAlwaysBase64(sub, fileUrl) ==
  [type |-> sub.activeTab,
   post_title |-> IF sub.activeTab = "reels" THEN "Update Product Image"
                  ELSE IF sub.productName # "" THEN sub.productName
                  ELSE "Ad Campaign",
   caption |-> sub.prompt,
   prompt_text |-> sub.prompt,
   product_name |-> IF sub.productName # "" THEN sub.productName ELSE NULL,
   product_description |->
     IF sub.productDescription # "" THEN sub.productDescription ELSE NULL,
   aspect_ratio |-> sub.aspectRatio,
   file_url |-> fileUrl,
   file_base64 |-> sub.filePreview,
   file_name |-> IF sub.file # NULL THEN sub.file ELSE "uploaded-file",
   file_type |-> IF sub.file # NULL THEN FileType(sub.file)
                 ELSE "application/octet-stream",
   source |-> "adgen_studio"]

\* webhookPayload of the upload build (Index.tsx)
UploadPayload(sub, fileUrl) ==
  [type |-> sub.activeTab,
   post_title |-> IF sub.activeTab = "reels" THEN "Update Product Image"
                  ELSE IF sub.productName # "" THEN sub.productName
                  ELSE "Ad Campaign",
   caption |-> sub.prompt,
   prompt_text |-> sub.prompt,
   product_name |-> IF sub.productName # "" THEN sub.productName ELSE NULL,
   product_description |->
     IF sub.productDescription # "" THEN sub.productDescription ELSE NULL,
   aspect_ratio |-> sub.aspectRatio,
   file_url |-> fileUrl,
   file_base64 |-> IF fileUrl = NullUrl /\ sub.filePreview # NULL
                     THEN sub.filePreview ELSE NULL,
   file_name |-> IF sub.file # NULL THEN sub.file ELSE "uploaded-file",
   file_type |-> IF sub.file # NULL THEN FileType(sub.file)
                 ELSE IF sub.filePreview # NULL /\ StartsWithDataImage(sub.filePreview)
                   THEN "image/jpeg" ELSE "application/octet-stream",
   source |-> "adgen_studio"]

\* (variant) the product image URL sent on every tab, blank or not
UrlPayloadAllUrls(sub) ==
  [type |-> sub.activeTab, prompt |-> sub.prompt, aspect_ratio |-> sub.aspectRatio]
  @@ (IF sub.activeTab = "reels"
        THEN [image_url |-> Trim(sub.imageUrl),
              product_image_url |-> Trim(sub.productImageUrl)]
        ELSE [product_name |-> sub.productName,
              product_description |-> sub.productDescription,
              product_image_url |-> Trim(sub.productImageUrl)])

\* webhookPayload of the URL build (part_000)
UrlPayload(sub) ==
  [type |-> sub.activeTab, prompt |-> sub.prompt, aspect_ratio |-> sub.aspectRatio]
  @@ (IF sub.activeTab = "reels"
        THEN [image_url |-> Trim(sub.imageUrl)]
        ELSE [product_name |-> sub.productName,
              product_description |-> sub.productDescription]
             @@ (IF Trim(sub.productImageUrl) # ""
                   THEN [product_image_url |-> Trim(sub.productImageUrl)]
                   ELSE [x \in {} |-> NULL]))

\* the fetch(webhookUrl, { method: 'POST', body: JSON.stringify(webhookPayload) })
Dispatch(pending, sub, payload) ==
  IssueFrom(pending, [kind |-> "submit", url |-> sub.webhookUrl,
                      body |-> payload, sub |-> sub])

\* submitting the form: handleSubmit up to its first await
HandleSubmit ==
  /\ mounted /\ activeView = "create" /\ StepAllowed
  /\ ~loading /\ FormValid(variant, draft)
  /\ steps' = steps + 1 /\ navs' = navs
  /\ LET sub == Submission(draft, settings) IN
     CASE sub.webhookUrl = "" ->
            /\ toast' = Toast("error",
                  <<"Please configure at least one n8n webhook in Settings!">>)
            /\ loading' = loading
            /\ NoCall
       [] sub.webhookUrl # "" /\ variant = "url" ->
            IF sub.activeTab = "reels" /\ Trim(sub.imageUrl) = ""
            THEN /\ toast' = Toast("error", <<"Please enter an image URL!">>)
                 /\ loading' = loading
                 /\ NoCall
            ELSE /\ toast' = NoToast
                 /\ loading' = TRUE
                 /\ Dispatch(inflight, sub, UrlPayload(sub))
       [] sub.webhookUrl # "" /\ variant = "upload" ->
            IF sub.file = NULL /\ sub.filePreview = NULL
            THEN /\ toast' = NoToast
                 /\ loading' = TRUE
                 /\ Dispatch(inflight, sub, UploadPayload(sub, NullUrl))
            ELSE LET client == GetSupabase(settings) IN
                   CASE client = "null" ->
                          /\ toast' = NoToast
                          /\ loading' = TRUE
                          /\ Dispatch(inflight, sub, UploadPayload(sub, NullUrl))
                     [] client = "throws" ->
                          /\ toast' = Toast("error", <<"Error: ">> \o ClientError)
                          /\ loading' = FALSE
                          /\ NoCall
                     [] client = "client" /\ sub.file # NULL ->
                          /\ toast' = NoToast
                          /\ loading' = TRUE
                          /\ \E timestamp \in Timestamps :
                               Issue([kind |-> "upload", sub |-> sub,
                                      path |-> FilePath(sub.activeTab, timestamp, sub.file)])
                     [] client = "client" /\ sub.file = NULL ->
                          /\ toast' = NoToast
                          /\ loading' = TRUE
                          /\ \/ \E timestamp \in Timestamps :
                                  Issue([kind |-> "upload", sub |-> sub,
                                         path |-> FilePath(sub.activeTab, timestamp,
                                                           "uploaded-file")])
                             \/ Dispatch(inflight, sub, UploadPayload(sub, NullUrl))
  /\ UNCHANGED <<mounted, activeView, videos, settings, appSettingsSlot, db,
                 variant, bucket>>
  /\ Render(loading' # loading, formSlot)

\* the storage bucket answers an upload with upsert: false
StorageReply(o) ==
  /\ o \in inflight /\ o.kind = "upload" /\ o.phase = "sent"
  /\ \/ /\ ~bucket.exists
        /\ inflight' = (inflight \ {o}) \cup {Reply(o, "error", <<"Bucket not found">>)}
        /\ bucket' = bucket
     \/ /\ bucket.exists /\ o.path \in bucket.objects
        /\ inflight' = (inflight \ {o}) \cup
                         {Reply(o, "error", <<"The resource already exists">>)}
        /\ bucket' = bucket
     \/ /\ bucket.exists /\ o.path \notin bucket.objects
        /\ inflight' = (inflight \ {o}) \cup {Reply(o, "ok", <<>>)}
        /\ bucket' = [bucket EXCEPT !.objects = @ \cup {o.path}]
     \/ /\ \E f \in BackendFailures(o.kind) :
             inflight' = (inflight \ {o}) \cup {Reply(o, f[1], f[2])}
        /\ bucket' = bucket
  /\ toast' = NoToast
  /\ UNCHANGED <<mounted, activeView, videos, loading, settings, editingFields,
                 appSettingsSlot, db, steps, navs, calls, variant, draft, formSlot>>

\* handleSubmit after the upload's await: the public URL or none, then the POST
UploadDone(o) ==
  /\ o \in inflight /\ o.kind = "upload" /\ o.phase = "replied"
  /\ toast' = IF o.outcome = "error" /\ IncludesBucketNotFound(o.message)
                THEN Toast("error", <<"Storage bucket \"ad-files\" not found. Please run the SQL in supabase-storage-setup.sql file in your Supabase SQL Editor.">>)
                ELSE NoToast
  /\ Dispatch(inflight \ {o}, o.sub,
              UploadPayload(o.sub, IF o.outcome = "ok" THEN PublicUrl(o.path)
                                                       ELSE NullUrl))
  /\ UNCHANGED <<mounted, activeView, videos, loading, settings, editingFields,
                 appSettingsSlot, db, steps, navs, variant, draft, formSlot, bucket>>

\* (variant) a catch that shows a fixed text
SubmitErrorGeneric(o) ==
  IF o.outcome = "response" /\ o.ok /\ o.json THEN <<>>
  ELSE <<"Error: ", "Request failed">>

\* what handleSubmit's catch shows for the webhook's answer; <<>> on success
SubmitError(o) ==
  CASE o.outcome = "throw" -> <<"Error: ">> \o o.message
    [] o.outcome = "response" /\ ~o.ok ->
         <<"Error: ", "Webhook failed (", o.status, "): ", o.text>>
    [] o.outcome = "response" /\ o.ok /\ ~o.json ->
         <<"Error: ", "Unexpected token in JSON">>
    [] OTHER -> <<>>

\* handleSubmit after the POST's await
SubmitDone(o) ==
  /\ o \in inflight /\ o.kind = "submit" /\ o.phase = "replied"
  /\ loading' = FALSE
  /\ IF SubmitError(o) # <<>>
       THEN /\ toast' = Toast("error", SubmitError(o))
            /\ inflight' = inflight \ {o}
            /\ UNCHANGED <<mounted, activeView, videos, settings, appSettingsSlot,
                           db, steps, navs, calls, variant, bucket>>
            /\ Render(loading' # loading, formSlot)
       ELSE /\ toast' = Toast("success",
                   <<"Video request submitted! Check dashboard in a few moments.">>)
            /\ inflight' = (inflight \ {o}) \cup
                 (IF variant = "upload"
                    THEN {[kind |-> "timer", n |-> o.n, phase |-> "timer",
                           settings |-> o.sub.settings]}
                    ELSE {})
            /\ UNCHANGED <<mounted, activeView, videos, settings, appSettingsSlot,
                           db, steps, navs, calls, variant, bucket>>
            /\ Render(loading' # loading, {})

\* the setTimeout callback of the upload build: setActiveView('dashboard') and
\* fetchVideos() of the submitting render, then the fetch effect
TimerFires(o) ==
  /\ o \in inflight /\ o.kind = "timer"
  /\ activeView' = "dashboard"
  /\ LET c1 == GetSupabase(o.settings)
         c2 == GetSupabase(settings)
     IN
       LET effect == /\ activeView # "dashboard" /\ c2 = "client"
                     /\ settings.supabaseUrl # "" /\ settings.supabaseKey # ""
           first  == IF c1 = "client"
                       THEN {[kind |-> "list", table |-> o.settings.tableName,
                              n |-> calls, phase |-> "sent"]}
                       ELSE {}
           second == IF effect
                       THEN {[kind |-> "list", table |-> settings.tableName,
                              n |-> calls + Cardinality(first), phase |-> "sent"]}
                       ELSE {}
       IN /\ inflight' = (inflight \ {o}) \cup first \cup second
          /\ calls' = calls + Cardinality(first) + Cardinality(second)
          /\ loading' = IF first \cup second # {} THEN TRUE ELSE loading
          /\ toast' = IF c1 = "null"
                        THEN Toast("error", <<"Please configure settings first">>)
                        ELSE NoToast
  /\ UNCHANGED <<mounted, videos, settings, appSettingsSlot, db, steps, navs, variant,
                 bucket>>
  /\ Render(activeView' # activeView \/ loading' # loading, formSlot)


\* ---------------------------------------------------------- specifications
\* the table as the generation workflow left it
FullTable == [id \in Ids |-> GeneratedRow(id)]
EmptyTable == [id \in {} |-> GeneratedRow(id)]

\* a draft an earlier session left in localStorage
SavedDraft(v) ==
  FormData(v, [InitialDraft EXCEPT !.prompt = "make it pop", !.productName = "Lamp",
                                   !.productDescription = "A lamp"])

\* the page has loaded: useState defaults, nothing in flight; localStorage and
\* the external services are as earlier sessions left them
Init ==
  /\ mounted = FALSE
  /\ activeView = "dashboard"
  /\ videos = <<>>
  /\ loading = FALSE
  /\ settings = DefaultSettings
  /\ editingFields = NoEdits
  /\ appSettingsSlot \in {{}} \cup {{JsonStringify(s)} : s \in SettingsInputs}
  /\ db \in {EmptyTable, FullTable}
  /\ inflight = {}
  /\ toast = NoToast
  /\ steps = 0
  /\ navs = 0
  /\ calls = 0
  /\ variant \in {"upload", "url"}
  /\ draft = InitialDraft
  /\ formSlot \in {{}, {SavedDraft(variant)}}
  /\ bucket \in {[exists |-> e, objects |-> {}] : e \in BOOLEAN}

\* the dashboard: the feed and the operations on it
InitDashboard ==
  /\ Init
  /\ appSettingsSlot \in {{}, {JsonStringify(ConfiguredSettings)}}
  /\ variant = "upload" /\ formSlot = {} /\ bucket.exists

NextDashboard ==
  \/ Mount
  \/ Refresh
  \/ \E id \in Ids, field \in Fields, value \in Texts :
       HandleFieldChange(id, field, value)
  \/ \E id \in Ids, field \in Fields : HandleFieldBlur(id, field)
  \/ \E id \in Ids, confirmed \in BOOLEAN : DeleteVideo(id, confirmed)
  \/ \E view \in {"dashboard", "settings"} : SetActiveView(view)
  \/ \E tempSettings \in BackendSettingsInputs : HandleSave(tempSettings)
  \/ \E o \in inflight : FetchVideosDone(o)
  \/ \E o \in inflight : UpdateVideoFieldDone(o)
  \/ \E o \in inflight : DeleteVideoDone(o)
  \/ \E o \in inflight : BackendList(o)
  \/ \E o \in inflight : BackendUpdate(o)
  \/ \E o \in inflight : BackendDelete(o)

Spec == InitDashboard /\ [][NextDashboard]_vars

\* every call that was sent is answered, and every answer is taken up by the
\* handler that awaits it
CallsComplete ==
  /\ WF_vars(\E o \in inflight : BackendList(o))
  /\ WF_vars(\E o \in inflight : BackendUpdate(o))
  /\ WF_vars(\E o \in inflight : BackendDelete(o))
  /\ WF_vars(\E o \in inflight : FetchVideosDone(o))
  /\ WF_vars(\E o \in inflight : UpdateVideoFieldDone(o))
  /\ WF_vars(\E o \in inflight : DeleteVideoDone(o))

SpecLive == Spec /\ CallsComplete

\* the dashboard with the actions of a card: edit, delete, download, publish
NextPublish ==
  \/ NextDashboard
  \/ \E id \in Ids : HandleDownload(id)
  \/ \E id \in Ids : HandlePostToSocials(id)
  \/ \E o \in inflight : WebhookReply(o)
  \/ \E o \in inflight : PostToSocialsDone(o)

SpecPublish == InitDashboard /\ [][NextPublish]_vars

\* the settings: saving them, and loading them when the page starts
NextSettings ==
  \/ Mount
  \/ \E view \in {"dashboard", "settings"} : SetActiveView(view)
  \/ \E tempSettings \in SettingsInputs : HandleSave(tempSettings)
  \/ Reload
  \/ \E o \in inflight : BackendList(o)
  \/ \E o \in inflight : FetchVideosDone(o)

SpecSettings == InitDashboard /\ [][NextSettings]_vars

\* the creation flow: the draft form, the upload and the webhook dispatch
InitCreate == Init /\ db = FullTable

NextCreate ==
  \/ Mount
  \/ \E view \in Views : SetActiveView(view)
  \/ \E tempSettings \in SettingsInputs : HandleSave(tempSettings)
  \/ \E tab \in Tabs : SetActiveTab(tab)
  \/ \E field \in DOMAIN DraftInputs : \E value \in DraftInputs[field] :
       SetDraftField(field, value)
  \/ \E selectedFile \in FileInputs \cup {NULL} : HandleFileChange(selectedFile, TRUE)
  \/ HandleFileChange(NULL, FALSE)
  \/ \E name \in FileInputs : FileReaderDone(name)
  \/ HandleSubmit
  \/ \E id \in Ids : HandlePostToSocials(id)
  \/ \E o \in inflight : PostToSocialsDone(o)
  \/ \E o \in inflight : StorageReply(o)
  \/ \E o \in inflight : UploadDone(o)
  \/ \E o \in inflight : WebhookReply(o)
  \/ \E o \in inflight : SubmitDone(o)
  \/ \E o \in inflight : TimerFires(o)
  \/ \E o \in inflight : BackendList(o)
  \/ \E o \in inflight : FetchVideosDone(o)

SpecCreate == InitCreate /\ [][NextCreate]_vars

\* a draft of an earlier session that is ready to be submitted on every tab,
\* with or without a product image URL
ReadyDraft(v, productImageUrl) ==
  FormData(v, [InitialDraft EXCEPT !.prompt = "make it pop",
                                   !.productName = "Lamp",
                                   !.productDescription = "A lamp",
                                   !.imageUrl = "https://site/i.jpg",
                                   !.productImageUrl = productImageUrl])

\* the creation flow, entered with a draft that is ready to be submitted
InitResubmit ==
  /\ mounted = FALSE
  /\ activeView = "dashboard"
  /\ videos = <<>>
  /\ loading = FALSE
  /\ settings = DefaultSettings
  /\ editingFields = NoEdits
  /\ appSettingsSlot \in {{}} \cup {{JsonStringify(s)} : s \in SettingsInputs}
  /\ db = FullTable
  /\ inflight = {}
  /\ toast = NoToast
  /\ steps = 0
  /\ navs = 0
  /\ calls = 0
  /\ variant \in {"upload", "url"}
  /\ draft = InitialDraft
  /\ formSlot \in {{ReadyDraft(variant, u)} : u \in DraftInputs.productImageUrl}
  /\ bucket \in {[exists |-> e, objects |-> {}] : e \in BOOLEAN}

SpecResubmit == InitResubmit /\ [][NextCreate]_vars


\* ------------------------------------------------------------------ claims
\* the calls a step sends out
NewCalls == {op \in inflight' \ inflight : op.phase = "sent"}

WithoutId(vs, id) == SelectSeq(vs, LAMBDA v : v.id # id)

\* the edit buffer of the field holds a value other than the stored one
ChangedTo(id, field) ==
  \E v \in FindVideo(videos, id) :
    editingFields[id][field] # UNDEF /\ editingFields[id][field] # v[field]

BothWebhooksBlank == settings.n8nGenerateWebhook = "" /\ settings.n8nPostWebhook = ""

\* C1: a declined confirmation sends no call and leaves the feed alone; a
\* confirmed one sends exactly one delete call for the clicked id; the row
\* leaves the feed when that call succeeded and stays when it failed.
C1_DeleteConfirmed ==
  [][ /\ (toast'.type = "confirm" /\ ~toast'.answer)
           => (NewCalls = {} /\ calls' = calls /\ videos' = videos)
      /\ \A id \in Ids :
           (DeleteVideo(id, TRUE) /\ toast'.type = "confirm")
             => /\ calls' = calls + 1
                /\ videos' = videos
                /\ \E op \in NewCalls :
                     NewCalls = {op} /\ op.kind = "delete" /\ op.id = id
      /\ \A o \in inflight :
           DeleteVideoDone(o)
             => /\ NewCalls = {} /\ calls' = calls
                /\ videos' = IF o.outcome = "ok" THEN WithoutId(videos, o.id)
                                                ELSE videos ]_vars

C1_Witness ==
  /\ toast = Toast("success", <<"Post deleted successfully">>)
  /\ Len(videos) = MaxId - 1

\* C2 (as stated): every blur of a changed field sends exactly one update call
\* with only that field, and a successful call leaves the new value in the feed
\* without a list call.
C2_Original ==
  [][ /\ \A id \in Ids, field \in Fields :
           (HandleFieldBlur(id, field) /\ ChangedTo(id, field))
             => /\ calls' = calls + 1
                /\ \E op \in NewCalls :
                     /\ NewCalls = {op} /\ op.kind = "update" /\ op.id = id
                     /\ op.changes = {<<field, editingFields[id][field]>>}
      /\ \A o \in inflight :
           (UpdateVideoFieldDone(o) /\ o.outcome = "ok")
             => /\ NewCalls = {} /\ calls' = calls
                /\ \A i \in 1..Len(videos') :
                     videos'[i].id = o.id
                       => \A c \in o.changes : videos'[i][c[1]] = c[2] ]_vars

\* C2 (amended): the same, for settings from which getSupabase makes a client.
C2_BlurSendsOneUpdate ==
  [][ /\ \A id \in Ids, field \in Fields :
           (HandleFieldBlur(id, field) /\ ChangedTo(id, field)
              /\ GetSupabase(settings) = "client")
             => /\ calls' = calls + 1
                /\ \E op \in NewCalls :
                     /\ NewCalls = {op} /\ op.kind = "update" /\ op.id = id
                     /\ op.changes = {<<field, editingFields[id][field]>>}
      /\ \A id \in Ids, field \in Fields :
           (HandleFieldBlur(id, field) /\ GetSupabase(settings) # "client")
             => (NewCalls = {} /\ calls' = calls)
      /\ \A o \in inflight :
           (UpdateVideoFieldDone(o) /\ o.outcome = "ok")
             => /\ NewCalls = {} /\ calls' = calls
                /\ \A i \in 1..Len(videos') :
                     videos'[i].id = o.id
                       => \A c \in o.changes : videos'[i][c[1]] = c[2] ]_vars

C2_Witness ==
  /\ toast = Toast("success", <<"Updated successfully">>)
  /\ \E i \in 1..Len(videos) : videos[i] # GeneratedRow(videos[i].id)

\* C3 (as stated): a blur of a field that was never edited, or whose buffer
\* equals what the field showed before the edit, sends no update call; rows
\* with a null title or caption, shown as the empty string, included.
C3_Original ==
  [][ \A id \in Ids, field \in Fields :
        ( /\ HandleFieldBlur(id, field)
          /\ \E v \in FindVideo(videos, id) :
               editingFields[id][field] \in {UNDEF, DisplayedValue(NoEdits, v, field)} )
          => (NewCalls = {} /\ calls' = calls) ]_vars

\* C4 (as stated): with a blank backend URL or key, a list, a field update
\* and a delete each send no call and show an error notification.
C4_Original ==
  [][ ( /\ settings.supabaseUrl = "" \/ settings.supabaseKey = ""
        /\ \/ Refresh
           \/ \E id \in Ids, confirmed \in BOOLEAN : DeleteVideo(id, confirmed)
           \/ \E id \in Ids, field \in Fields :
                HandleFieldBlur(id, field) /\ ChangedTo(id, field) )
        => (NewCalls = {} /\ calls' = calls /\ toast'.type = "error") ]_vars

\* C5: a submission with both webhooks blank shows an error, sends no call
\* (no upload, no POST) and leaves the loading flag false.
C5_NoWebhookNoCall ==
  [][ (HandleSubmit /\ BothWebhooksBlank)
        => /\ toast'.type = "error"
           /\ NewCalls = {} /\ calls' = calls /\ inflight' = inflight
           /\ ~loading /\ ~loading' ]_vars

C5_Witness ==
  toast = Toast("error", <<"Please configure at least one n8n webhook in Settings!">>)

\* C6 (as stated): in the upload build a submission with a webhook configured
\* always goes on to the webhook POST, whatever fails in the upload phase, and
\* after such a failure the payload's file_url is null.
C6_Original ==
  [][ /\ (HandleSubmit /\ variant = "upload" /\ ~BothWebhooksBlank)
           => \E op \in NewCalls :
                /\ NewCalls = {op} /\ op.kind \in {"upload", "submit"}
                /\ op.kind = "submit" => op.body.file_url = NullUrl
      /\ \A o \in inflight :
           UploadDone(o)
             => \E op \in NewCalls :
                  /\ NewCalls = {op} /\ op.kind = "submit"
                  /\ o.outcome # "ok" => op.body.file_url = NullUrl ]_vars

\* C7: a publish goes to the post webhook if set, else to the generate webhook;
\* a creation goes to the generate webhook if set, else to the post webhook;
\* with both blank the action shows an error and sends nothing; a step never
\* posts to more than one endpoint.
C7_EndpointSelection ==
  [][ /\ \A id \in Ids :
           HandlePostToSocials(id)
             => IF BothWebhooksBlank
                  THEN NewCalls = {} /\ calls' = calls /\ toast'.type = "error"
                  ELSE \E op \in NewCalls :
                         /\ NewCalls = {op} /\ op.kind = "publish"
                         /\ op.url = IF settings.n8nPostWebhook # ""
                                       THEN settings.n8nPostWebhook
                                       ELSE settings.n8nGenerateWebhook
      /\ (HandleSubmit /\ BothWebhooksBlank)
           => (NewCalls = {} /\ calls' = calls /\ toast'.type = "error")
      /\ \A op \in NewCalls :
           op.kind = "submit"
             => /\ op.url # ""
                /\ op.url = IF op.sub.settings.n8nGenerateWebhook # ""
                              THEN op.sub.settings.n8nGenerateWebhook
                              ELSE op.sub.settings.n8nPostWebhook
      /\ Cardinality({op \in NewCalls : op.kind \in {"publish", "submit"}}) <= 1
    ]_vars

C7_Witness ==
  /\ \E op \in inflight : op.kind = "publish" /\ op.url = GenHook
  /\ settings.n8nPostWebhook = ""

\* C8: the feed is strictly descending by id in every reachable state.
C8_FeedDescending ==
  \A i \in 1..(Len(videos) - 1) : videos[i].id > videos[i + 1].id

C8_Witness ==
  /\ toast = Toast("success", <<"Updated successfully">>)
  /\ Len(videos) = MaxId

\* C9: a list that succeeds with no rows, or with null data, empties the feed
\* and shows no error notification.
C9_EmptyListIsNoError ==
  [][ \A o \in inflight :
        (FetchVideosDone(o) /\ o.outcome = "ok" /\ DataOrEmpty(o.data) = <<>>)
          => (videos' = <<>> /\ toast'.type # "error" /\ ~loading') ]_vars

C9_Witness ==
  /\ calls = 1 /\ steps = 0 /\ navs = 0 /\ inflight = {}
  /\ videos = <<>> /\ toast = NoToast /\ db = FullTable

\* C10: a failed field update (error response or exception) leaves the feed
\* as it was and shows an error notification.
C10_FailedUpdateKeepsFeed ==
  [][ \A o \in inflight :
        (UpdateVideoFieldDone(o) /\ o.outcome # "ok")
          => (videos' = videos /\ toast'.type = "error"
              /\ toast'.message = o.message) ]_vars

C10_Witness ==
  /\ toast = Toast("error", <<"update", ": Failed to fetch">>)
  /\ videos # <<>>

\* the notification text has `part` as one of its pieces
Contains(message, part) == \E i \in 1..Len(message) : message[i] = part

\* C11 (as stated): a webhook response with a non-success status makes the
\* publish and the creation submit fail with an error notification that
\* carries the response's status and its body.
C11_Original ==
  [][ \A o \in inflight :
        ( /\ PostToSocialsDone(o) \/ SubmitDone(o)
          /\ o.outcome = "response" /\ ~o.ok )
          => /\ toast'.type = "error"
             /\ Contains(toast'.message, o.status)
             /\ Contains(toast'.message, o.text) ]_vars

\* C12: a list call answered with an error response ends with the error
\* notification whose text names the table the call queried, which is the
\* configured table name of the render that issued it, and tells the user to
\* check the RLS policies; the feed is left alone.
C12_ListErrorNamesTable ==
  [][ /\ \A op \in NewCalls :
           op.kind = "list"
             => \/ op.table = settings'.tableName
                \/ \E o \in inflight : TimerFires(o) /\ op.table = o.settings.tableName
      /\ \A o \in inflight :
           (FetchVideosDone(o) /\ o.outcome = "error")
             => /\ toast'.type = "error"
                /\ Contains(toast'.message, o.table)
                /\ Contains(toast'.message, "\" and RLS policies.")
                /\ \A i \in 1..Len(o.message) : Contains(toast'.message, o.message[i])
                /\ videos' = videos ]_vars

C12_Witness ==
  /\ toast = Toast("error", <<"Database error: ", "list", ": permission denied",
                              ". Check table name \"", "video_posts",
                              "\" and RLS policies.">>)
  /\ settings.tableName = "video_posts"

\* the draft fields of the form, without the file input's own selection
DraftFields(d) ==
  [prompt |-> d.prompt, productName |-> d.productName,
   productDescription |-> d.productDescription, file |-> d.file,
   filePreview |-> d.filePreview, aspectRatio |-> d.aspectRatio,
   imageUrl |-> d.imageUrl, productImageUrl |-> d.productImageUrl]

\* C13 (as stated): when a creation submission succeeds, every draft field
\* of the form holds its initial value and the draft slot of local storage
\* holds nothing of the submitted draft (it is empty or holds the blank draft).
C13_Original ==
  [][ \A o \in inflight :
        (SubmitDone(o) /\ SubmitError(o) = <<>>)
          => /\ DraftFields(draft') = DraftFields(InitialDraft)
             /\ formSlot' \subseteq {FormData(variant, InitialDraft)} ]_vars

\* C14 (as stated, for the list and the delete): when every call that was sent
\* completes, each failure of a list or a delete -- an error response, an
\* exception of the request, or getSupabase failing to construct the client --
\* ends in an error notification, and in the end no call is in flight and the
\* loading flag is false.
C14_Original ==
  /\ [][ /\ \A o \in inflight :
              ((FetchVideosDone(o) \/ DeleteVideoDone(o)) /\ o.outcome # "ok")
                => (toast'.type = "error" /\ NewCalls = {})
         /\ ( /\ GetSupabase(settings) = "throws"
               /\ (Refresh \/ \E id \in Ids, confirmed \in BOOLEAN :
                                 DeleteVideo(id, confirmed)) )
              => toast'.type = "error" ]_vars
  /\ <>[](inflight = {} /\ ~loading)

CallKinds == {"list", "update", "delete", "publish", "upload", "submit"}

\* C15 (as stated): no step of the program sends more than one call to the
\* same external operation, and the step that takes up a failed call sends no
\* call of that kind again.
C15_Original ==
  [][ /\ \A k \in CallKinds : Cardinality({op \in NewCalls : op.kind = k}) <= 1
      /\ \A o \in inflight :
           ( /\ \/ FetchVideosDone(o) /\ o.outcome # "ok"
                \/ PostToSocialsDone(o) /\ ~(o.outcome = "response" /\ o.ok)
                \/ SubmitDone(o) /\ SubmitError(o) # <<>>
                \/ UploadDone(o) /\ o.outcome # "ok" )
             => \A op \in NewCalls : op.kind # o.kind ]_vars

\* C16: save(s) leaves s in the in-memory settings and the JSON text of s in
\* the 'appSettings' slot; nothing else writes the slot; the load of the next
\* start yields exactly the settings whose text the slot holds, and with an
\* empty slot it yields the defaults (blank URL, key and webhooks, table name
\* 'social_media_videos').
C16_SettingsRoundTrip ==
  [][ /\ \A s \in SettingsInputs :
           HandleSave(s)
             => (settings' = s /\ appSettingsSlot' = {JsonStringify(s)})
      /\ (~ \E s \in SettingsInputs : HandleSave(s))
           => appSettingsSlot' = appSettingsSlot
      /\ Mount
           => /\ \A s \in SettingsInputs :
                   appSettingsSlot = {JsonStringify(s)} => settings' = s
              /\ appSettingsSlot = {}
                   => settings' = [supabaseUrl |-> "", supabaseKey |-> "",
                                   n8nGenerateWebhook |-> "", n8nPostWebhook |-> "",
                                   tableName |-> "social_media_videos"] ]_vars

\* settings saved in this run, the page loaded again and its settings loaded
C16_Witness ==
  /\ mounted /\ activeView = "dashboard" /\ navs = 2 /\ steps = 1
  /\ settings = AppSettings(GoodUrl, "key", "", PostHook, "video_posts")
  /\ appSettingsSlot = {JsonStringify(settings)}

\* the ids of the feed, in feed order
IdsOf(vs) == [i \in 1..Len(vs) |-> vs[i].id]

FilterIds(ids, keep) == SelectSeq(ids, LAMBDA id : id \in keep)

\* C17: no two entries of the feed share an id, and a step that is not the
\* arrival of a list response (a field update, a delete, a publish, a
\* download, an edit) leaves every remaining entry with its id, in its place
\* among the others.
C17_IdsDistinctAndFixed ==
  /\ [](\A i, j \in 1..Len(videos) : i # j => videos[i].id # videos[j].id)
  /\ [][ /\ (~ \E o \in inflight : FetchVideosDone(o))
              => IdsOf(videos') =
                   FilterIds(IdsOf(videos), {videos'[i].id : i \in 1..Len(videos')})
         /\ \A o \in inflight :
              UpdateVideoFieldDone(o) => IdsOf(videos') = IdsOf(videos)
         /\ (\E id \in Ids : HandlePostToSocials(id) \/ HandleDownload(id))
              => videos' = videos ]_vars

C17_Witness ==
  /\ Len(videos) = MaxId
  /\ \E i \in 1..Len(videos) : videos[i].post_title = ""
  /\ toast = Toast("success", <<"Updated successfully">>)

VideoPostFields ==
  {"id", "video_url", "post_title", "caption", "hashtag", "youtube_post_status",
   "instagram_post_status", "facebook_post_status"}

\* C20: a publish sends one POST whose body is the feed's record of the post,
\* all fields, whatever the edit buffers hold; the click, the webhook's answer
\* and the handler's continuation leave the feed, the settings, the loading
\* flag and the backend rows as they were.
C20_PublishBodyAndFrame ==
  [][ /\ \A id \in Ids :
           HandlePostToSocials(id)
             => /\ UNCHANGED <<videos, settings, loading, db>>
                /\ IF BothWebhooksBlank
                     THEN NewCalls = {} /\ calls' = calls
                     ELSE /\ calls' = calls + 1
                          /\ \E op \in NewCalls :
                               /\ NewCalls = {op} /\ op.kind = "publish"
                               /\ {op.body} = FindVideo(videos, id)
                               /\ DOMAIN op.body = VideoPostFields
      /\ \A o \in inflight :
           (o.kind = "publish" /\ (WebhookReply(o) \/ PostToSocialsDone(o)))
             => /\ UNCHANGED <<videos, settings, loading, db>>
                /\ NewCalls = {} /\ calls' = calls ]_vars

\* a publish in flight for a post whose title has an unsaved edit
C20_Witness ==
  \E op \in inflight :
    /\ op.kind = "publish"
    /\ editingFields[op.body.id].post_title \notin {UNDEF, op.body.post_title}

\* the webhook dispatch of the submission failed
DispatchFailed(o) == o.outcome = "throw" \/ ~o.ok \/ ~o.json

\* the message of the error raised by the failed dispatch
RaisedMessage(o) ==
  CASE o.outcome = "throw" -> o.message
    [] o.outcome = "response" /\ ~o.ok ->
         <<"Webhook failed (", o.status, "): ", o.text>>
    [] o.outcome = "response" /\ o.ok /\ ~o.json -> <<"Unexpected token in JSON">>

\* C18 (as stated): a failed webhook dispatch ends the submission with the
\* loading flag false and the error notification whose text is exactly the
\* raised error message.
C18_Original ==
  [][ \A o \in inflight :
        (SubmitDone(o) /\ DispatchFailed(o))
          => (toast' = Toast("error", RaisedMessage(o)) /\ ~loading') ]_vars

\* C18 (amended): the text shown is "Error: " followed by the raised error
\* message, with nothing else added or removed; the submission ends with the
\* loading flag false and sends no further call.
C18_FailedMessagePrefixed ==
  [][ \A o \in inflight :
        (SubmitDone(o) /\ DispatchFailed(o))
          => /\ toast' = Toast("error", <<"Error: ">> \o RaisedMessage(o))
             /\ ~loading'
             /\ NewCalls = {} /\ calls' = calls ]_vars

C18_Witness ==
  toast = Toast("error", <<"Error: ", "Webhook failed (", "500", "): ",
                           "Internal Server Error">>)

\* the extension of the file the user picked; for a restored preview, of the
\* file the preview was read from
OriginalExtension(sub) ==
  IF sub.file = "photo.png"
       \/ (sub.file = NULL /\ sub.filePreview = PreviewOf("photo.png"))
  THEN "png" ELSE ""

\* C19 (as stated): the key of every upload is ads/<tab>_<timestamp>.<the
\* original file's extension>, also for a restored preview and for a file name
\* without a dot; the bucket never loses or replaces an object, an upload to a
\* key that exists is refused, and a refused upload goes on with no file URL.
C19_Original ==
  [][ /\ \A op \in NewCalls :
           op.kind = "upload"
             => \E timestamp \in Timestamps :
                  op.path = <<"ads/", op.sub.activeTab, "_", ToString(timestamp),
                              ".", OriginalExtension(op.sub)>>
      /\ \A o \in inflight :
           StorageReply(o)
             => /\ bucket.objects \subseteq bucket'.objects
                /\ o.path \in bucket.objects
                     => (bucket' = bucket /\ \A r \in inflight' : r.n = o.n => r.outcome # "ok")
      /\ \A o \in inflight :
           (UploadDone(o) /\ o.outcome # "ok")
             => \E op \in NewCalls : op.kind = "submit" /\ op.body.file_url = NullUrl
    ]_vars

\* C21 (as stated): once no call is in flight, a feed that holds rows equals
\* the content of the backend table, row for row in descending id order.
C21_Original ==
  (mounted /\ inflight = {} /\ videos # <<>>)
    => videos = SelectDescending(db, DOMAIN db)

\* C22 (as stated): a row that is gone from the backend table and from the
\* feed, as it is after a successful delete, never comes back into the feed.
C22_Original ==
  [][ \A id \in Ids :
        (id \notin DOMAIN db /\ FindVideo(videos, id) = {})
          => FindVideo(videos', id) = {} ]_vars

\* C23 (as stated): the loading flag is true whenever a list, a delete or a
\* creation submission (its upload or its POST) is in flight.
C23_Original ==
  (\E op \in inflight : op.kind \in {"list", "delete", "upload", "submit"})
    => loading

\* C24 (as stated): at most one creation submission (its upload or its POST)
\* is in flight at any time.
C24_Original ==
  Cardinality({op \in inflight : op.kind \in {"upload", "submit"}}) <= 1

\* C25: a successful field update leaves the feed with the same entries in
\* the same order, the named field of the entries with the call's id set to
\* the new value and everything else as it was; when no entry has that id the
\* feed is unchanged.
C25_UpdatePatchesInPlace ==
  [][ \A o \in inflight :
        (UpdateVideoFieldDone(o) /\ o.outcome = "ok")
          => /\ Len(videos') = Len(videos)
             /\ \A i \in 1..Len(videos) :
                  /\ videos[i].id # o.id => videos'[i] = videos[i]
                  /\ videos[i].id = o.id
                       => /\ \A c \in o.changes : videos'[i][c[1]] = c[2]
                          /\ \A f \in DOMAIN videos[i] :
                               (\A c \in o.changes : c[1] # f)
                                 => videos'[i][f] = videos[i][f]
             /\ FindVideo(videos, o.id) = {} => videos' = videos ]_vars

\* an update has completed after its row was deleted and left the feed
C25_Witness ==
  /\ toast = Toast("success", <<"Updated successfully">>)
  /\ Len(videos) = MaxId - 1
  /\ \A i \in 1..Len(videos) : videos[i] = GeneratedRow(videos[i].id)
  /\ \E id \in Ids : id \notin DOMAIN db /\ db # EmptyTable

\* C26: a list call that fails, by an error response or by an exception,
\* leaves the feed as it was; a list call that succeeds replaces the feed by
\* the rows of its response, or by no rows when the response has no data.
C26_FailedListKeepsFeed ==
  [][ \A o \in inflight :
        FetchVideosDone(o)
          => /\ o.outcome \in {"error", "throw"}
                  => (videos' = videos /\ toast'.type = "error")
             /\ o.outcome = "ok"
                  => /\ o.data = {} => videos' = <<>>
                     /\ \A rows \in o.data : videos' = rows ]_vars

\* a list has failed with the feed loaded
C26_Witness ==
  /\ toast.type = "error" /\ Contains(toast.message, "Database error: ")
  /\ Len(videos) = MaxId

\* the submitted values, as draft fields
SubmittedFields(sub) ==
  [prompt |-> sub.prompt, productName |-> sub.productName,
   productDescription |-> sub.productDescription, file |-> sub.file,
   filePreview |-> sub.filePreview, aspectRatio |-> sub.aspectRatio,
   imageUrl |-> sub.imageUrl, productImageUrl |-> sub.productImageUrl]

\* C27 (as stated): when a submission ends in Failed with the Create view
\* shown and the persisted draft still the submitted one (the user typed
\* nothing meanwhile), the form fields hold the submitted values and the
\* persisted record is kept.
C27_Original ==
  [][ \A o \in inflight :
        ( /\ SubmitDone(o) /\ DispatchFailed(o)
          /\ activeView = "create"
          /\ formSlot = {FormData(variant, SubmittedFields(o.sub))} )
          => /\ formSlot' = formSlot
             /\ DraftFields(draft') = SubmittedFields(o.sub) ]_vars

UrlPayloadFields(sub) ==
  {"type", "prompt", "aspect_ratio"} \cup
  (IF sub.activeTab = "reels" THEN {"image_url"}
   ELSE {"product_name", "product_description"} \cup
        (IF Trim(sub.productImageUrl) # "" THEN {"product_image_url"} ELSE {}))

AutoTrigger ==
  \/ \E view \in Views : SetActiveView(view) /\ view = "dashboard"
  \/ /\ Mount /\ activeView = "dashboard"
     /\ \/ settings'.supabaseUrl # settings.supabaseUrl
        \/ settings'.supabaseKey # settings.supabaseKey

\* C30 (as stated): when the view becomes the dashboard, or the backend URL
\* or key changes with the dashboard shown, a list call is sent if and only if
\* the URL and the key are both non-blank, and with a blank URL or key no
\* error notification is shown; a Refresh click with a blank URL or key shows
\* the 'configure settings' error.
C30_Original ==
  [][ /\ AutoTrigger
           => IF settings'.supabaseUrl # "" /\ settings'.supabaseKey # ""
                THEN \E op \in NewCalls : op.kind = "list"
                ELSE NewCalls = {} /\ calls' = calls /\ toast'.type # "error"
      /\ (Refresh /\ (settings.supabaseUrl = "" \/ settings.supabaseKey = ""))
           => toast' = Toast("error", <<"Please configure settings first">>) ]_vars

====
